---- MODULE Spec2Model ----
(***************************************************************************)
(* Stock -- Frutas & Legumes: the catalog importer (src/src/importers.ts)  *)
(* and the application state controller (src/src/App.tsx).                 *)
(*                                                                         *)
(* Text is a sequence of characters; a character is a one-symbol atom.     *)
(* Accented letters are written with a mark after the base letter          *)
(* ("a~" is a-tilde, "c," is c-cedilla, "ord" is the feminine ordinal).    *)
(***************************************************************************)
EXTENDS Naturals, Sequences, FiniteSets, Bags

VARIABLES
    clock,          \* the calendar day of the device (what getTodayKey reads)
    phase,          \* "closed" | "mounted" (rendered, effects pending) | "running" | "crashed"
    lsCatalog,      \* localStorage item LS_CATALOG
    lsState,        \* localStorage item LS_STATE
    catalog,        \* useState<Catalog>
    state,          \* useState<PersistedState>
    activeCategory, \* useState activeCategory
    todayKey,       \* const todayKey of the latest render
    inflight,       \* the files of the onImportFile calls suspended at their await (a bag)
    lastImport      \* the onImportFile promise settled last: its file and outcome

vars == <<clock, phase, lsCatalog, lsState, catalog, state, activeCategory,
          todayKey, inflight, lastImport>>

(***************************************************************************)
(* Bounds of the model.                                                    *)
(***************************************************************************)
MaxDay == 2
MaxInflight == 2
MaxRows == 3

(***************************************************************************)
(* Characters.                                                             *)
(***************************************************************************)
UpperLetters ==
    <<"A","B","C","D","E","F","G","H","I","J","K","L","M","N","O","P","Q",
      "R","S","T","U","V","W","X","Y","Z","A~","C,">>

LowerLetters ==
    <<"a","b","c","d","e","f","g","h","i","j","k","l","m","n","o","p","q",
      "r","s","t","u","v","w","x","y","z","a~","c,">>

\* letters that NFD splits into a base letter and a combining mark
Accented == <<"a~","c,","A~","C,">>

AccentBase == <<"a","c","A","C">>

Digits == {"0","1","2","3","4","5","6","7","8","9"}

WhiteSpace == {" ", "\t"}

IndexOf(seq, c) == CHOOSE i \in DOMAIN seq : seq[i] = c

Occurs(seq, c) == \E i \in DOMAIN seq : seq[i] = c

toLowerCaseChar(c) ==
    IF Occurs(UpperLetters, c) THEN LowerLetters[IndexOf(UpperLetters, c)] ELSE c

toLowerCase(s) == [i \in DOMAIN s |-> toLowerCaseChar(s[i])]

\* .normalize('NFD').replace(/\p{Diacritic}/gu, '')
stripDiacriticChar(c) ==
    IF Occurs(Accented, c) THEN AccentBase[IndexOf(Accented, c)] ELSE c

stripDiacritics(s) == [i \in DOMAIN s |-> stripDiacriticChar(s[i])]

\* the class [a-z0-9]
IsAlnum(c) ==
    \/ c \in Digits
    \/ \E i \in 1..26 : LowerLetters[i] = c

\* .replace(/[^a-z0-9]+/g, '-')
RECURSIVE collapseNonAlnum(_)
collapseNonAlnum(s) ==
    IF s = <<>> THEN <<>>
    ELSE IF IsAlnum(Head(s)) THEN <<Head(s)>> \o collapseNonAlnum(Tail(s))
    ELSE IF Len(s) >= 2 /\ ~IsAlnum(s[2]) THEN collapseNonAlnum(Tail(s))
    ELSE <<"-">> \o collapseNonAlnum(Tail(s))

\* .replace(/(^-|-$)/g, '')
trimDashes(s) ==
    LET a == IF s # <<>> /\ Head(s) = "-" THEN Tail(s) ELSE s
    IN  IF a # <<>> /\ a[Len(a)] = "-" THEN SubSeq(a, 1, Len(a) - 1) ELSE a

slug(s) == trimDashes(collapseNonAlnum(stripDiacritics(toLowerCase(s))))

makeId(categoryName, productName) ==
    slug(categoryName) \o <<"_","_">> \o slug(productName)

\* String.prototype.trim
RECURSIVE trimStart(_)
trimStart(s) ==
    IF s # <<>> /\ Head(s) \in WhiteSpace THEN trimStart(Tail(s)) ELSE s

RECURSIVE trimEnd(_)
trimEnd(s) ==
    IF s # <<>> /\ s[Len(s)] \in WhiteSpace
    THEN trimEnd(SubSeq(s, 1, Len(s) - 1)) ELSE s

trim(s) == trimEnd(trimStart(s))

(***************************************************************************)
(* The importer.  A workbook is what XLSX.read returns: its sheets in file *)
(* order, each with a name and the rows sheet_to_json gives.  A row is the *)
(* sequence of its cells' texts; it may be empty.                          *)
(***************************************************************************)
Produto == <<"p","r","o","d","u","t","o">>

ProductLabel == <<"p","r","o","d","u","c","t">>

\* (r?.[0] ?? '').toString().trim()
firstCell(r) == trim(IF Len(r) >= 1 THEN r[1] ELSE <<>>)

\* v && v.toLowerCase() !== 'produto' && v.toLowerCase() !== 'product'
isProductName(v) ==
    /\ v # <<>>
    /\ toLowerCase(v) # Produto
    /\ toLowerCase(v) # ProductLabel

RECURSIVE SelectNames(_)
SelectNames(names) ==
    IF names = <<>> THEN <<>>
    ELSE IF isProductName(Head(names))
         THEN <<Head(names)>> \o SelectNames(Tail(names))
         ELSE SelectNames(Tail(names))

\* a variant of unique that keeps the last occurrence of an id
RECURSIVE uniqueKeepingLast(_, _)
uniqueKeepingLast(products, seen) ==
    IF products = <<>> THEN <<>>
    ELSE IF \E j \in 2..Len(products) : products[j].id = Head(products).id
         THEN uniqueKeepingLast(Tail(products), seen)
         ELSE <<Head(products)>> \o uniqueKeepingLast(Tail(products), seen)

\* products.filter(p => (seen.has(p.id) ? false : (seen.add(p.id), true)))
RECURSIVE unique(_, _)
unique(products, seen) ==
    IF products = <<>> THEN <<>>
    ELSE IF Head(products).id \in seen
         THEN unique(Tail(products), seen)
         ELSE <<Head(products)>>
              \o unique(Tail(products), seen \cup {Head(products).id})

\* the body of the loop over wb.SheetNames
readSheetToCategory(sheet) ==
    LET names    == SelectNames([i \in DOMAIN sheet.rows |-> firstCell(sheet.rows[i])])
        products == [i \in DOMAIN names |->
                        [id |-> makeId(sheet.name, names[i]), name |-> names[i]]]
    IN  [name |-> sheet.name, products |-> unique(products, {})]

readWorkbookToCatalog(wb) ==
    [categories |-> [i \in DOMAIN wb |-> readSheetToCategory(wb[i])]]

(***************************************************************************)
(* Files the user can pick.  XLSX.read either returns a workbook or throws *)
(* on bytes it cannot parse.                                               *)
(***************************************************************************)
Frutas == <<"F","r","u","t","a","s">>

LegumesVeg == <<"L","e","g","u","m","e","s"," ","&"," ","V","e","g">>

Plantas == <<"P","l","a","n","t","a","s">>

Tropicais == <<"T","r","o","p","i","c","a","i","s">>

QuartaGama == <<"4","ord"," ","G","a","m","a">>

QuatroGama == <<"4"," ","G","a","m","a">>

Maca == <<"M","a","c,","a~">>

Banana == <<"B","a","n","a","n","a">>

\* the sheet "Frutas" with the rows  Maca;5 / Banana;3 / produto / Maca;9
WbFrutas ==
    << [name |-> Frutas,
        rows |-> << <<Maca, <<"5">>>>, <<Banana, <<"3">>>>, <<Produto>>,
                    <<Maca, <<"9">>>> >>] >>

\* two sheets whose names differ only in the ordinal sign
WbGama ==
    << [name |-> QuartaGama, rows |-> << <<Maca>> >>],
       [name |-> QuatroGama, rows |-> << <<Maca>> >>] >>

Malformed == [parses |-> FALSE, workbook |-> <<>>]

FileOf(wb) == [parses |-> TRUE, workbook |-> wb]

Files == {FileOf(WbFrutas), FileOf(WbGama), Malformed}

XLSXreadThrows(file) == ~file.parses

XLSXread(file) == file.workbook

(***************************************************************************)
(* JavaScript values and localStorage items.  An object is a record; a     *)
(* property that is undefined is a field the record does not have.  A      *)
(* stored item is absent (getItem gives null), the empty string, text that *)
(* JSON.parse rejects, or JSON text, kept with the value it denotes.       *)
(***************************************************************************)
JsNull == [json |-> "null"]

JsNumber == [json |-> "number"]

IsObject(v) == "json" \notin DOMAIN v

HasProp(v, f) == IsObject(v) /\ f \in DOMAIN v

Absent == [kind |-> "absent"]

EmptyText == [kind |-> "empty"]

Garbage == [kind |-> "garbage"]

JSONstringify(v) == [kind |-> "json", value |-> v]

\* a variant of safeParse without the try/catch: the SyntaxError of
\* JSON.parse leaves App without a value to render
safeParseThrowing(raw) ==
    IF raw.kind \in {"absent", "empty"} THEN JsNull
    ELSE IF raw.kind = "json" THEN raw.value
    ELSE [json |-> "threw"]

safeParse(raw) ==
    IF raw.kind \in {"absent", "empty"} THEN JsNull      \* if (!raw) return null
    ELSE IF raw.kind = "json" THEN raw.value             \* JSON.parse(raw)
    ELSE JsNull                                          \* catch { return null }

DEFAULT_CATALOG ==
    [categories |->
        << [name |-> Frutas,     products |-> <<>>],
           [name |-> LegumesVeg, products |-> <<>>],
           [name |-> Plantas,    products |-> <<>>],
           [name |-> Tropicais,  products |-> <<>>],
           [name |-> QuartaGama, products |-> <<>>] >>]

EmptyQty == [id \in {} |-> ""]

Texts == {"10 kg", ""}

\* the day key of the device's calendar day
getTodayKey == clock

NotMounted == [unmounted |-> TRUE]

NoImport == [outcome |-> "none"]

(***************************************************************************)
(* The state initializers of App.                                          *)
(***************************************************************************)
\* safeParse<Catalog>(localStorage.getItem(LS_CATALOG)) ?? DEFAULT_CATALOG
initialCatalog(raw) ==
    LET parsed == safeParse(raw)
    IN  IF parsed = JsNull THEN DEFAULT_CATALOG ELSE parsed

\* a variant of the state initializer that starts a new day with an empty map
initialStateResetting(raw, today) ==
    LET existing == safeParse(raw)
    IN  IF existing = JsNull \/ ~HasProp(existing, "dateKey")
           \/ existing.dateKey # today
        THEN [dateKey |-> today, qtyByProductId |-> EmptyQty]
        ELSE existing

\* useState<PersistedState>(() => ...)
initialState(raw, today) ==
    LET existing == safeParse(raw)
    IN  IF existing = JsNull
        THEN [dateKey |-> today, qtyByProductId |-> EmptyQty]
        ELSE IF ~HasProp(existing, "dateKey") \/ existing.dateKey # today
        THEN [dateKey |-> today,
              qtyByProductId |-> IF HasProp(existing, "qtyByProductId")
                                 THEN existing.qtyByProductId ELSE EmptyQty]
        ELSE existing

\* catalog.categories[0] throws when catalog has no categories property
renderThrows(cat) == ~HasProp(cat, "categories")

\* catalog.categories[0]?.name ?? 'Frutas'
firstCategoryName(cat) ==
    IF cat.categories = <<>> THEN Frutas ELSE cat.categories[1].name

\* the effect that keeps the active category one of the catalog's
ensureActiveCategory(cat, active) ==
    IF \E i \in DOMAIN cat.categories : cat.categories[i].name = active
    THEN active ELSE firstCategoryName(cat)

\* the products the quantity inputs are rendered for
activeProducts ==
    LET found == {i \in DOMAIN catalog.categories :
                    catalog.categories[i].name = activeCategory}
    IN  IF found = {} THEN <<>>
        ELSE catalog.categories[CHOOSE i \in found : \A j \in found : i <= j].products

(***************************************************************************)
(* The state updates of the handlers.                                      *)
(***************************************************************************)
\* { ...prev, qtyByProductId: { ...prev.qtyByProductId, [productId]: value } }
setQty(prev, productId, value) ==
    [dateKey |-> prev.dateKey,
     qtyByProductId |->
        LET q == IF HasProp(prev, "qtyByProductId")
                 THEN prev.qtyByProductId ELSE EmptyQty
        IN  [id \in DOMAIN q \cup {productId} |->
                IF id = productId THEN value ELSE q[id]]]

\* { dateKey: todayKey, qtyByProductId: {} }
clearAll(today) == [dateKey |-> today, qtyByProductId |-> EmptyQty]

(***************************************************************************)
(* The application as a state machine.                                     *)
(***************************************************************************)
InitialCatalogItems ==
    {Absent, Garbage, JSONstringify(JsNumber),
     JSONstringify(readWorkbookToCatalog(WbFrutas))}

StoredQty == [id \in {makeId(Frutas, Maca)} |-> "10 kg"]

InitialStateItems ==
    {Absent, EmptyText, Garbage, JSONstringify(JsNull), JSONstringify(JsNumber)}
    \cup {JSONstringify([dateKey |-> d, qtyByProductId |-> StoredQty]) : d \in 0..1}
    \cup {JSONstringify([dateKey |-> d]) : d \in 0..1}

Init ==
    /\ clock = 1
    /\ phase = "closed"
    /\ lsCatalog \in InitialCatalogItems
    /\ lsState \in InitialStateItems
    /\ catalog = NotMounted
    /\ state = NotMounted
    /\ activeCategory = <<>>
    /\ todayKey = 0
    /\ inflight = EmptyBag
    /\ lastImport = NoImport

\* midnight passes (the first render and its effects are one task)
Tick ==
    /\ phase # "mounted"
    /\ clock < MaxDay
    /\ clock' = clock + 1
    /\ UNCHANGED <<phase, lsCatalog, lsState, catalog, state, activeCategory,
                   todayKey, inflight, lastImport>>

\* the first render of App: the state initializers read the store
Mount ==
    /\ phase = "closed"
    /\ IF renderThrows(initialCatalog(lsCatalog))
       THEN \* the render throws and React unmounts the tree
            /\ phase' = "crashed"
            /\ UNCHANGED <<catalog, state, activeCategory, todayKey>>
       ELSE /\ phase' = "mounted"
            /\ todayKey' = getTodayKey
            /\ catalog' = initialCatalog(lsCatalog)
            /\ state' = initialState(lsState, getTodayKey)
            /\ activeCategory' = firstCategoryName(catalog')
    /\ UNCHANGED <<clock, lsCatalog, lsState, inflight, lastImport>>

\* the effects of the first render
MountEffects ==
    /\ phase = "mounted"
    /\ phase' = "running"
    /\ lsCatalog' = JSONstringify(catalog)
    /\ lsState' = JSONstringify(state)
    /\ activeCategory' = ensureActiveCategory(catalog, activeCategory)
    /\ UNCHANGED <<clock, catalog, state, todayKey, inflight, lastImport>>

\* onChange of a quantity input: setQty, the render it causes, and the effects
SetQty(productId, value) ==
    /\ phase = "running"
    /\ \E i \in DOMAIN activeProducts : activeProducts[i].id = productId
    /\ state' = setQty(state, productId, value)
    /\ todayKey' = getTodayKey
    /\ lsState' = JSONstringify(state')
    /\ UNCHANGED <<clock, phase, lsCatalog, catalog, activeCategory, inflight,
                   lastImport>>

\* onClick of "Limpar quantidades"
ClearAll ==
    /\ phase = "running"
    /\ state' = clearAll(todayKey)
    /\ todayKey' = getTodayKey
    /\ lsState' = JSONstringify(state')
    /\ UNCHANGED <<clock, phase, lsCatalog, catalog, activeCategory, inflight,
                   lastImport>>

\* onClick of a category button that is not the active one
SetActiveCategory(name) ==
    /\ phase = "running"
    /\ name # activeCategory
    /\ \E i \in DOMAIN catalog.categories : catalog.categories[i].name = name
    /\ activeCategory' = name
    /\ todayKey' = getTodayKey
    /\ UNCHANGED <<clock, phase, lsCatalog, lsState, catalog, state, inflight,
                   lastImport>>

\* onChange of the search box: the query only filters what is shown, the
\* render it causes reads the day again
SetQuery ==
    /\ phase = "running"
    /\ todayKey' = getTodayKey
    /\ UNCHANGED <<clock, phase, lsCatalog, lsState, catalog, state,
                   activeCategory, inflight, lastImport>>

\* onChange of the file input: onImportFile runs up to its await
OnImportFile(file) ==
    /\ phase = "running"
    /\ BagCardinality(inflight) < MaxInflight
    /\ inflight' = inflight (+) SetToBag({file})
    /\ UNCHANGED <<clock, phase, lsCatalog, lsState, catalog, state,
                   activeCategory, todayKey, lastImport>>

\* the ids of all products of a catalog
ProductIds(cat) ==
    UNION {{cat.categories[c].products[p].id :
                p \in DOMAIN cat.categories[c].products} :
           c \in DOMAIN cat.categories}

\* the calls in flight without one call for file
Settled(bag, file) == bag (-) SetToBag({file})

\* a variant of ImportResolve that drops the quantities of products the new
\* catalog does not have
ImportResolvePruning(file) ==
    /\ phase = "running"
    /\ file \in BagToSet(inflight)
    /\ ~XLSXreadThrows(file)
    /\ catalog' = readWorkbookToCatalog(XLSXread(file))
    /\ state' = IF HasProp(state, "qtyByProductId")
                THEN [state EXCEPT !.qtyByProductId =
                        [id \in DOMAIN state.qtyByProductId \cap ProductIds(catalog')
                            |-> state.qtyByProductId[id]]]
                ELSE state
    /\ todayKey' = getTodayKey
    /\ lsCatalog' = JSONstringify(catalog')
    /\ lsState' = JSONstringify(state')
    /\ activeCategory' = ensureActiveCategory(catalog', activeCategory)
    /\ inflight' = Settled(inflight, file)
    /\ lastImport' = [outcome |-> "fulfilled", file |-> file]
    /\ UNCHANGED <<clock, phase>>

\* the rest of onImportFile once the bytes are there, XLSX.read returning
ImportResolve(file) ==
    /\ phase = "running"
    /\ file \in BagToSet(inflight)
    /\ ~XLSXreadThrows(file)
    /\ catalog' = readWorkbookToCatalog(XLSXread(file))
    /\ todayKey' = getTodayKey
    /\ lsCatalog' = JSONstringify(catalog')
    /\ activeCategory' = ensureActiveCategory(catalog', activeCategory)
    /\ inflight' = Settled(inflight, file)
    /\ lastImport' = [outcome |-> "fulfilled", file |-> file]
    /\ UNCHANGED <<clock, phase, lsState, state>>

\* a variant of ImportReject that catches the error and shows an empty catalog
ImportRejectSwallowing(file) ==
    /\ phase = "running"
    /\ file \in BagToSet(inflight)
    /\ XLSXreadThrows(file)
    /\ catalog' = [categories |-> <<>>]
    /\ todayKey' = getTodayKey
    /\ lsCatalog' = JSONstringify(catalog')
    /\ activeCategory' = ensureActiveCategory(catalog', activeCategory)
    /\ inflight' = Settled(inflight, file)
    /\ lastImport' = [outcome |-> "fulfilled", file |-> file]
    /\ UNCHANGED <<clock, phase, lsState, state>>

\* nothing after the throw runs; the promise onImportFile returned rejects
\* (the onChange handler discards that promise: `void onImportFile(f)`)
ImportReject(file) ==
    /\ phase = "running"
    /\ file \in BagToSet(inflight)
    /\ XLSXreadThrows(file)
    /\ inflight' = Settled(inflight, file)
    /\ lastImport' = [outcome |-> "rejected", file |-> file]
    /\ UNCHANGED <<clock, phase, lsCatalog, lsState, catalog, state,
                   activeCategory, todayKey>>

\* the page is closed or reloaded
Close ==
    /\ phase \in {"running", "crashed"}
    /\ phase' = "closed"
    /\ catalog' = NotMounted
    /\ state' = NotMounted
    /\ activeCategory' = <<>>
    /\ todayKey' = 0
    /\ inflight' = EmptyBag
    /\ lastImport' = NoImport
    /\ UNCHANGED <<clock, lsCatalog, lsState>>

Next ==
    \/ Tick
    \/ Mount
    \/ MountEffects
    \/ /\ phase = "running"
       /\ \E i \in DOMAIN activeProducts, value \in Texts :
             SetQty(activeProducts[i].id, value)
    \/ ClearAll
    \/ /\ phase = "running"
       /\ \E c \in DOMAIN catalog.categories :
             SetActiveCategory(catalog.categories[c].name)
    \/ SetQuery
    \/ \E file \in Files : OnImportFile(file)
    \/ \E file \in BagToSet(inflight) : ImportResolve(file)
    \/ \E file \in BagToSet(inflight) : ImportReject(file)
    \/ Close

Spec == Init /\ [][Next]_vars

(***************************************************************************)
(* The importer on its own: the application is running with its defaults   *)
(* and one import is in flight, of any workbook of at most MaxRows rows in *)
(* at most two sheets.                                                     *)
(***************************************************************************)
RowChoices ==
    { <<>>,
      << <<" ","P","r","o","d","u","t","o">> >>,
      << <<"P","R","O","D","U","C","T">>, <<"Q","t","y">> >>,
      << Maca, <<"5">> >>,
      << <<"m","a","c","a"," ">> >>,
      << <<" ","\t">> >>,
      << Banana >> }

SheetNameChoices == {Frutas, QuartaGama, QuatroGama}

NamePairs ==
    {<<Frutas, QuartaGama>>, <<QuartaGama, QuatroGama>>, <<QuatroGama, Frutas>>}

\* one import is in flight: of a workbook of no sheet, of one sheet, or of
\* two sheets that share the rows rs, the first k of them in the first sheet
InitImport ==
    /\ clock = 1
    /\ phase = "running"
    /\ catalog = DEFAULT_CATALOG
    /\ state = clearAll(1)
    /\ lsCatalog = JSONstringify(catalog)
    /\ lsState = JSONstringify(state)
    /\ activeCategory = Frutas
    /\ todayKey = 1
    /\ lastImport = NoImport
    /\ \E n \in 0..MaxRows : \E rs \in [1..n -> RowChoices] :
        \/ inflight = SetToBag({FileOf(<<>>)})
        \/ \E name \in SheetNameChoices :
              inflight = SetToBag({FileOf(<<[name |-> name, rows |-> rs]>>)})
        \/ \E pr \in NamePairs, k \in 0..n :
              inflight = SetToBag({FileOf(<<[name |-> pr[1], rows |-> SubSeq(rs, 1, k)],
                                    [name |-> pr[2], rows |-> SubSeq(rs, k + 1, n)]>>)})

NextImport == \E file \in BagToSet(inflight) : ImportResolve(file)

SpecImport == InitImport /\ [][NextImport]_vars

(***************************************************************************)
(* Properties of the importer.                                             *)
(***************************************************************************)
\* the reference pipeline, by row index
Candidate(sheet, i) ==
    LET r == sheet.rows[i] IN trim(IF r = <<>> THEN <<>> ELSE r[1])

IsHeaderLabel(v) == toLowerCase(v) \in {Produto, ProductLabel}

KeptRows(sheet) ==
    {i \in DOMAIN sheet.rows :
        Candidate(sheet, i) # <<>> /\ ~IsHeaderLabel(Candidate(sheet, i))}

ReferenceId(sheet, i) ==
    slug(sheet.name) \o <<"_","_">> \o slug(Candidate(sheet, i))

FirstOccurrences(sheet) ==
    {i \in KeptRows(sheet) :
        \A j \in KeptRows(sheet) :
            j < i => ReferenceId(sheet, j) # ReferenceId(sheet, i)}

NthOf(S, k) == CHOOSE i \in S : Cardinality({j \in S : j < i}) = k - 1

ReferenceProducts(sheet) ==
    [k \in 1..Cardinality(FirstOccurrences(sheet)) |->
        LET i == NthOf(FirstOccurrences(sheet), k)
        IN  [id |-> ReferenceId(sheet, i), name |-> Candidate(sheet, i)]]

ImportedWorkbook == XLSXread(lastImport.file)

\* C8: the products of every Category the importer emits are the trimmed
\* first cells of the sheet's rows, in row order, without empty cells and
\* header labels, each with id slug(sheet) "__" slug(name), first occurrence
\* of an id kept; no product is a header label or empty, no id occurs twice
\* in a Category.
SheetNormalization ==
    lastImport.outcome = "fulfilled" =>
        /\ Len(catalog.categories) = Len(ImportedWorkbook)
        /\ \A c \in DOMAIN catalog.categories :
            LET cat == catalog.categories[c] IN
            /\ cat.name = ImportedWorkbook[c].name
            /\ cat.products = ReferenceProducts(ImportedWorkbook[c])
            /\ \A p \in DOMAIN cat.products :
                /\ cat.products[p].name # <<>>
                /\ cat.products[p].name[1] \notin WhiteSpace
                /\ ~IsHeaderLabel(cat.products[p].name)
                /\ \A q \in DOMAIN cat.products :
                      p # q => cat.products[p].id # cat.products[q].id

\* a sheet of MaxRows rows was imported that holds a header row and two
\* different spellings of one product, of which the first is the one kept
SheetNormalizationWitness ==
    /\ lastImport.outcome = "fulfilled"
    /\ \E c \in DOMAIN catalog.categories :
        LET sheet == ImportedWorkbook[c] IN
        /\ Len(sheet.rows) = MaxRows
        /\ \E i \in DOMAIN sheet.rows : IsHeaderLabel(Candidate(sheet, i))
        /\ \E i \in KeptRows(sheet), j \in KeptRows(sheet) :
            /\ i < j
            /\ ReferenceId(sheet, i) = ReferenceId(sheet, j)
            /\ Candidate(sheet, i) # Candidate(sheet, j)
            /\ catalog.categories[c].products =
                  <<[id |-> ReferenceId(sheet, i), name |-> Candidate(sheet, i)]>>

\* C10: no two products of an imported Catalog, in the same or in different
\* categories, share an id.
CatalogIdsUnique ==
    lastImport.outcome = "fulfilled" =>
        \A c1 \in DOMAIN catalog.categories, c2 \in DOMAIN catalog.categories :
            \A p1 \in DOMAIN catalog.categories[c1].products,
               p2 \in DOMAIN catalog.categories[c2].products :
                <<c1, p1>> # <<c2, p2>> =>
                    catalog.categories[c1].products[p1].id
                        # catalog.categories[c2].products[p2].id

(***************************************************************************)
(* Properties of the state controller.                                     *)
(***************************************************************************)
\* state.qtyByProductId[p.id] ?? ''
QtyShown(st, id) ==
    IF HasProp(st, "qtyByProductId") /\ id \in DOMAIN st.qtyByProductId
    THEN st.qtyByProductId[id] ELSE ""

IsStoredState(item) ==
    /\ item.kind = "json"
    /\ HasProp(item.value, "dateKey")
    /\ HasProp(item.value, "qtyByProductId")

IsStoredCatalog(item) ==
    item.kind = "json" /\ HasProp(item.value, "categories")

Unparsable(item) == item.kind \in {"absent", "empty", "garbage"}

\* a step in which an in-flight import of file ends with XLSX.read throwing
FailedImportStep(file) ==
    /\ phase = "running" /\ phase' = "running"
    /\ XLSXreadThrows(file)
    /\ inflight' = Settled(inflight, file)

\* a step in which an in-flight import of file ends with a new catalog
FulfilledImportStep(file) ==
    /\ phase = "running" /\ phase' = "running"
    /\ ~XLSXreadThrows(file)
    /\ inflight' = Settled(inflight, file)

\* C1: an import of bytes that cannot be parsed leaves the Catalog, the
\* PersistedState and the store as they were, and the promise of
\* onImportFile rejects.
FailedImportIsAtomic ==
    [][\A file \in BagToSet(inflight) :
        FailedImportStep(file) =>
            /\ catalog' = catalog
            /\ state' = state
            /\ lsCatalog' = lsCatalog
            /\ lsState' = lsState
            /\ lastImport' = [outcome |-> "rejected", file |-> file]]_vars

\* an import failed while a catalog with products and quantities was loaded
FailedImportWitness ==
    /\ phase = "running"
    /\ lastImport.outcome = "rejected"
    /\ ProductIds(catalog) # {}
    /\ HasProp(state, "qtyByProductId")
    /\ \E id \in ProductIds(catalog) : QtyShown(state, id) = "10 kg"

\* C2: a successful import makes the Catalog the imported one (one category
\* per sheet, every product from a row of that sheet) and leaves the
\* PersistedState and its stored copy unchanged, orphaned entries included;
\* re-importing the file the catalog came from keeps every id and every
\* quantity shown.
ImportReplacesCatalogOnly ==
    [][\A file \in BagToSet(inflight) :
        FulfilledImportStep(file) =>
            LET wb == XLSXread(file) IN
            /\ Len(catalog'.categories) = Len(wb)
            /\ \A c \in DOMAIN catalog'.categories :
                LET cat == catalog'.categories[c] IN
                /\ cat.name = wb[c].name
                /\ \A p \in DOMAIN cat.products :
                    /\ \E r \in DOMAIN wb[c].rows :
                          cat.products[p].name = Candidate(wb[c], r)
                    /\ cat.products[p].id
                          = makeId(wb[c].name, cat.products[p].name)
            /\ state' = state
            /\ lsState' = lsState
            /\ lastImport = [outcome |-> "fulfilled", file |-> file] =>
                /\ ProductIds(catalog') = ProductIds(catalog)
                /\ catalog' = catalog
                /\ \A id \in ProductIds(catalog') :
                      QtyShown(state', id) = QtyShown(state, id)]_vars

\* the two-sheet workbook was imported over quantities entered for the
\* products of another catalog: the entry is orphaned and still there
ImportReplacesCatalogWitness ==
    /\ phase = "running"
    /\ lastImport = [outcome |-> "fulfilled", file |-> FileOf(WbGama)]
    /\ catalog = readWorkbookToCatalog(WbGama)
    /\ HasProp(state, "qtyByProductId")
    /\ \E id \in DOMAIN state.qtyByProductId :
          id \notin ProductIds(catalog) /\ state.qtyByProductId[id] = "10 kg"

\* C3: the state the first render starts with: a stored state of another
\* day is carried over under the current day, one of the current day is
\* taken as it is, and without a stored state the map is empty.
RolloverOnLoad ==
    phase = "mounted" =>
        /\ IsStoredState(lsState) /\ lsState.value.dateKey # clock =>
              /\ state.dateKey = clock
              /\ state.qtyByProductId = lsState.value.qtyByProductId
        /\ IsStoredState(lsState) /\ lsState.value.dateKey = clock =>
              state = lsState.value
        /\ lsState = Absent =>
              state = [dateKey |-> clock, qtyByProductId |-> EmptyQty]

\* the app was started on a day after the one the stored quantities are of
RolloverOnLoadWitness ==
    /\ phase = "mounted"
    /\ IsStoredState(lsState)
    /\ lsState.value.dateKey # clock
    /\ lsState.value.qtyByProductId # EmptyQty
    /\ state = [dateKey |-> clock,
                qtyByProductId |-> lsState.value.qtyByProductId]

\* C9: a stored catalog that is missing or unparsable gives the default
\* catalog, a stored state that is missing or unparsable gives the empty
\* state of the current day; the first render does not throw and the other
\* stored value is loaded.
MalformedStoreIsAbsent ==
    /\ phase = "mounted" =>
        /\ Unparsable(lsCatalog) =>
              /\ catalog = DEFAULT_CATALOG
              /\ IsStoredState(lsState) =>
                    /\ state.dateKey = clock
                    /\ state.qtyByProductId = lsState.value.qtyByProductId
        /\ Unparsable(lsState) =>
              /\ state = [dateKey |-> clock, qtyByProductId |-> EmptyQty]
              /\ IsStoredCatalog(lsCatalog) => catalog = lsCatalog.value
    /\ phase = "crashed" =>
        /\ ~Unparsable(lsCatalog)
        /\ ~(Unparsable(lsState) /\ IsStoredCatalog(lsCatalog))

\* the app started from a store holding text that is not JSON under both keys
MalformedStoreWitness ==
    /\ phase = "mounted"
    /\ lsCatalog = Garbage
    /\ lsState = Garbage
    /\ catalog = DEFAULT_CATALOG
    /\ state = [dateKey |-> clock, qtyByProductId |-> EmptyQty]

\* C4: after the effects of the first render and after every setQuantity,
\* clearAll and successful import, the store holds the serialization of
\* the Catalog and of the PersistedState in memory, and starting the app
\* again on that day gives the same Catalog and PersistedState.
PersistenceMirrorsMemory ==
    [][( \/ MountEffects
         \/ /\ phase = "running"
            /\ \/ \E i \in DOMAIN activeProducts, value \in Texts :
                     SetQty(activeProducts[i].id, value)
               \/ ClearAll
               \/ \E file \in BagToSet(inflight) : ImportResolve(file) )
        =>
        /\ lsCatalog' = JSONstringify(catalog')
        /\ lsState' = JSONstringify(state')
        /\ initialCatalog(lsCatalog') = catalog'
        /\ initialState(lsState', clock') = state']_vars

\* C5: setQuantity(productId, text) maps productId to text, changes no other
\* entry, and leaves the PersistedState with the current day as its dateKey.
SetQtyRecordsUnderToday ==
    [][phase = "running" =>
        \A i \in DOMAIN activeProducts, value \in Texts :
            SetQty(activeProducts[i].id, value) =>
                /\ state'.qtyByProductId[activeProducts[i].id] = value
                /\ \A id \in DOMAIN state'.qtyByProductId :
                      id # activeProducts[i].id =>
                          /\ HasProp(state, "qtyByProductId")
                          /\ id \in DOMAIN state.qtyByProductId
                          /\ state'.qtyByProductId[id] = state.qtyByProductId[id]
                /\ state'.dateKey = clock']_vars

\* C6: clearAll gives the empty map under the current day and keeps the
\* Catalog; no other operation of the running app removes an entry.
ClearAllResetsToToday ==
    [][/\ ClearAll =>
            /\ state' = [dateKey |-> clock', qtyByProductId |-> EmptyQty]
            /\ catalog' = catalog
       /\ ( /\ phase = "running" /\ phase' = "running"
            /\ ~ClearAll
            /\ HasProp(state, "qtyByProductId") ) =>
            /\ HasProp(state', "qtyByProductId")
            /\ DOMAIN state.qtyByProductId \subseteq DOMAIN state'.qtyByProductId]_vars

\* C7: while an import is in flight no setQuantity, clearAll or second
\* import is processed.
NoInterleavingWithImport ==
    [][(phase = "running" /\ inflight # EmptyBag) =>
        ~ \/ \E i \in DOMAIN activeProducts, value \in Texts :
                SetQty(activeProducts[i].id, value)
          \/ ClearAll
          \/ \E file \in Files : OnImportFile(file)]_vars

====
